---- MODULE Spec2Model ----
(***************************************************************************)
(* Park-maintenance record keeper: the five-table store (init_db.py DDL),  *)
(* the HTTP handlers of app.py that write to it, the bulk wipe, and the    *)
(* report renderer (_escape_html, _build_table, _build_report_html).       *)
(* Beside them the credential store of auth_sqlite.py and the launcher of  *)
(* run_both.py with its quit listener.                                     *)
(*                                                                         *)
(* Encoding of request values.  A JSON field that the handler passes to    *)
(* int() is a number >= 0 when int() accepts it (3, "3"), Absent when the  *)
(* key is missing, null or "" and NonNumeric when int() raises ValueError  *)
(* ("abc").  A text field is a string, "" when missing, null or empty.     *)
(***************************************************************************)
EXTENDS Integers, Sequences, FiniteSets, TLC

VARIABLES
    taman,      \* committed rows of table taman    [id, nama]
    tanaman,    \* committed rows of table tanaman  [id, id_taman, nama_umum]
    petugas,    \* committed rows of table petugas  [id, nama]
    kegiatan,   \* committed rows of table kegiatan [id, jenis]
    laporan,    \* committed rows of table laporan  [id, id_tanaman, id_petugas, id_kegiatan, tanggal]
    ai,         \* AUTO_INCREMENT counter of each table
    now,        \* the store's clock, what NOW() returns
    conns,      \* store connections currently open
    wipe,       \* the admin_clear_all request in flight: [pc, k, reset, del]
    resp,       \* the response of the request handled last
    io,         \* the calls it made to the store: [r, w] reads and writes
    bundle,     \* the row-sets handed to _build_report_html
    doc,        \* what _build_report_html made of them
    cell,       \* a cell value handed to _build_table
    td,         \* the text _build_table puts between <td> and </td>
    users,      \* rows of the credential store's table users [id, username]
    procs,      \* run_both.main: the children started so far, in order
    child,      \* each server child: "unstarted", "running" or "exited"
    sent,       \* the children that were sent a termination request
    main,       \* the main thread: [pc, i], i its index in stop_all's loop
    tq,         \* the quit-listener thread: [pc, i] likewise
    line,       \* the line wait_for_quit read last
    quit        \* wait_for_quit has read a quit line and called stop_callback

vars == <<taman, tanaman, petugas, kegiatan, laporan, ai, now, conns, wipe, resp, io,
          bundle, doc, cell, td, users, procs, child, sent, main, tq, line, quit>>

storeVars == <<taman, tanaman, petugas, kegiatan, laporan, ai, now, conns, wipe, resp, io>>
renderVars == <<bundle, doc, cell, td>>
authVars == <<users>>
launchVars == <<procs, child, sent, main, tq, line, quit>>

tables == <<taman, tanaman, petugas, kegiatan, laporan>>

----------------------------------------------------------------------------
(* Bounds of the model. *)

MaxTaman == 2
MaxTanaman == 1
MaxPetugas == 1
MaxKegiatan == 1
MaxLaporan == 1
MaxClock == 2
MaxPlants == 2      \* Plant rows of a bundle
MaxReports == 2     \* Report rows of a bundle
MaxCellLen == 3     \* characters of a cell value
MaxUsers == 2       \* rows of users
MaxNameLen == 3     \* characters of a username as sent

----------------------------------------------------------------------------
(* Request values. *)

Absent == 0 - 1
NonNumeric == 0 - 2

\* int(v) of app.py:75, :131, :171-173 returns; otherwise it raises.
IntOk(v) == v >= 0

\* Mutant: no text field is ever found missing.
NeverFalsy(s) == FALSE

\* `not nama` of app.py:70, :91, :108, :137.
Falsy(s) == s = ""

ParkNames == {"Taman A", "TAMAN A", "Taman B"}
PlantNames == {"Mawar"}
StaffName == "Budi"
ActivityName == "Penyiraman"

\* The sort key of a name under the schema's collation utf8mb4_general_ci:
\* letter case is not significant, so "Taman A" and "TAMAN A" share a key.
Collate(s) ==
    CASE s \in {"Taman A", "TAMAN A", "taman a"} -> 1
      [] s \in {"Taman B", "TAMAN B", "taman b"} -> 2
      [] OTHER -> 3

Ids(rows) == {r.id : r \in rows}

TableNames == {"laporan", "tanaman", "petugas", "kegiatan", "taman"}

\* The cap on each table's AUTO_INCREMENT counter in the model.
MaxId(t) ==
    CASE t = "taman" -> MaxTaman
      [] t = "tanaman" -> MaxTanaman
      [] t = "petugas" -> MaxPetugas
      [] t = "kegiatan" -> MaxKegiatan
      [] t = "laporan" -> MaxLaporan

----------------------------------------------------------------------------
(* The store: constraints of the DDL. *)

\* Mutant: taman is created without uk_taman_nama.
DupTamanNever(nama) == FALSE

\* UNIQUE KEY uk_taman_nama (nama_taman): the insert is rejected (1062).
DupTamanNama(nama) == \E r \in taman : Collate(r.nama) = Collate(nama)

\* Mutant: tanaman is created without fk_tanaman_taman.
FkTanamanMissing(id_taman) == TRUE

\* fk_tanaman_taman: the parent row must exist (1452).
FkTanamanOk(id_taman) == id_taman \in Ids(taman)

\* Mutant: laporan is created without fk_laporan_petugas.
FkLaporanNoPetugas(id_tanaman, id_petugas, id_kegiatan) ==
    /\ id_tanaman \in Ids(tanaman)
    /\ id_kegiatan \in Ids(kegiatan)

\* fk_laporan_tanaman, fk_laporan_petugas, fk_laporan_kegiatan (1452).
FkLaporanOk(id_tanaman, id_petugas, id_kegiatan) ==
    /\ id_tanaman \in Ids(tanaman)
    /\ id_petugas \in Ids(petugas)
    /\ id_kegiatan \in Ids(kegiatan)

\* tanggal DATETIME NOT NULL: the values the column takes as they are.
\* A time is a count of seconds; BadDate is a string that is no datetime.
BadDate == 0 - 3
ZeroDate == 0
DateOk(v) == v >= 1

\* The rows a table holds as the wipe transaction sees them: a table it has
\* deleted from is empty until the transaction ends.
Visible(t, del) ==
    IF t \in del THEN {}
    ELSE CASE t = "taman" -> taman
           [] t = "tanaman" -> tanaman
           [] t = "petugas" -> petugas
           [] t = "kegiatan" -> kegiatan
           [] t = "laporan" -> laporan

\* ON DELETE RESTRICT: DELETE FROM t fails (1451) while a visible laporan row
\* references a row of t.  ON DELETE CASCADE: deleting taman rows deletes
\* their tanaman rows, which is restricted in turn by laporan.
Restricted(t, del) ==
    CASE t = "tanaman" ->
            \E l \in Visible("laporan", del) : l.id_tanaman \in Ids(Visible("tanaman", del))
      [] t = "petugas" ->
            \E l \in Visible("laporan", del) : l.id_petugas \in Ids(Visible("petugas", del))
      [] t = "kegiatan" ->
            \E l \in Visible("laporan", del) : l.id_kegiatan \in Ids(Visible("kegiatan", del))
      [] t = "taman" ->
            \E l \in Visible("laporan", del) : \E p \in Visible("tanaman", del) :
                /\ l.id_tanaman = p.id
                /\ p.id_taman \in Ids(Visible("taman", del))
      [] OTHER -> FALSE

\* The tables DELETE FROM t empties: t, and tanaman by cascade from taman.
Deletes(t) == IF t = "taman" THEN {"taman", "tanaman"} ELSE {t}

\* A statement that inserts into t waits while the open wipe transaction
\* holds the locks of its DELETE FROM t.
Locked(t) == t \in wipe.del

----------------------------------------------------------------------------
(* Responses. *)

\* A response: the route, the status, the cause of an error (err), the
\* surrogate key returned, the INSERT chosen (q), the rows returned, and msg,
\* the text of the error body: "fixed" for a handler's own message, "store"
\* for str(e) of the mysql.connector.Error the handler caught, "framework"
\* for the 500 page the framework makes of an exception no handler caught.
Resp(op, status, err, msg, key, q, data) ==
    [op |-> op, status |-> status, err |-> err, msg |-> msg, key |-> key, q |-> q,
     data |-> data]

NoWipe == [pc |-> "idle", k |-> 0, reset |-> FALSE, del |-> {}]
NoResp == Resp("none", 0, "none", "none", 0, "-", <<>>)
NoIo == [r |-> 0, w |-> 0]
\* The five keys of a bundle, in the order report_all and report_html read
\* them.
BundleKeys == <<"taman", "petugas", "kegiatan", "tanaman", "laporan">>

\* bundle.has holds the keys whose value is a list; the other keys are
\* missing or None.
NoBundle ==
    [op |-> "none", has |-> {}, taman |-> <<>>, petugas |-> <<>>, kegiatan |-> <<>>,
     tanaman |-> <<>>, laporan |-> <<>>]
Children == <<"app", "auth">>

\* run_both.main has not started its listener yet.
LauncherIdle ==
    /\ procs = <<>>
    /\ child = [c \in {"app", "auth"} |-> "unstarted"]
    /\ sent = {}
    /\ main = [pc |-> "start_listener", i |-> 0]
    /\ tq = [pc |-> "unstarted", i |-> 0]
    /\ line = <<>>
    /\ quit = FALSE

NoDoc == [built |-> FALSE, raised |-> FALSE, rows5 |-> <<>>, secs |-> <<>>]

TypeOK ==
    /\ taman \subseteq [id : 1..MaxTaman, nama : ParkNames]
    /\ tanaman \subseteq [id : 1..MaxTanaman, id_taman : 1..MaxTaman, nama_umum : PlantNames]
    /\ petugas \subseteq [id : 1..MaxPetugas, nama : {StaffName}]
    /\ kegiatan \subseteq [id : 1..MaxKegiatan, jenis : {ActivityName}]
    /\ \A l \in laporan : l.id \in 1..MaxLaporan
    /\ \A t \in TableNames : ai[t] \in 1..(MaxId(t) + 1)
    /\ now \in 1..MaxClock
    /\ conns \in 0..1
    /\ io \in [r : 0..5, w : 0..10]

Init ==
    /\ taman = {}
    /\ tanaman = {}
    /\ petugas = {}
    /\ kegiatan = {}
    /\ laporan = {}
    /\ ai = [t \in TableNames |-> 1]
    /\ now = 1
    /\ conns = 0
    /\ wipe = NoWipe
    /\ resp = NoResp
    /\ io = NoIo
    /\ bundle = NoBundle
    /\ doc = NoDoc
    /\ cell = <<>>
    /\ td = <<>>
    /\ users = {}
    /\ LauncherIdle

----------------------------------------------------------------------------
(* The creation handlers.  Each is one request: validation, then one        *)
(* INSERT through execute(), which opens a connection, commits and closes.  *)
(* fault: the connection or the statement fails with mysql.connector.Error  *)
(* for a reason other than a constraint (server gone, connection refused).  *)

\* get_conn().
Open(c) == c + 1

\* Mutant: the connection is left open.
CloseNever(c) == c

\* conn.close() in the finally clause of rows(), execute() and admin_clear_all.
Close(c) == c - 1

\* The handler got as far as its call of execute() or rows(): it neither
\* returned at validation nor raised while building the arguments.
Called(err) == err \notin {"validation", "unhandled"}

\* The connections open after a handler that calls the store at most once.
ConnsAfter(err) == IF Called(err) THEN Close(Open(conns)) ELSE conns

\* The store calls of a handler whose one call is execute().
Writes(err) == IF Called(err) THEN [r |-> 0, w |-> 1] ELSE NoIo

\* Mutant: a failed or finished read is issued a second time.
ReadsRetried(err) == IF Called(err) THEN [r |-> 2, w |-> 0] ELSE NoIo

\* The store calls of a handler whose one call is rows().
Reads(err) == IF Called(err) THEN [r |-> 1, w |-> 0] ELSE NoIo

\* app.py:75: int(luas) if luas not in (None, "") else None.
LuasOk(luas) == luas = Absent \/ IntOk(luas)

create_taman(nama, luas, fault) ==
    /\ IF Falsy(nama)
         THEN /\ resp' = Resp("create_taman", 400, "validation", "fixed", 0, "-", <<>>)
              /\ UNCHANGED <<taman, ai>>
       ELSE IF ~LuasOk(luas)
         THEN /\ resp' = Resp("create_taman", 500, "unhandled", "framework", 0, "-", <<>>)
              /\ UNCHANGED <<taman, ai>>
       ELSE IF fault
         THEN /\ resp' = Resp("create_taman", 400, "connection", "store", 0, "-", <<>>)
              /\ UNCHANGED <<taman, ai>>
       ELSE /\ ~Locked("taman")
            /\ IF DupTamanNama(nama)
                 THEN /\ resp' = Resp("create_taman", 400, "duplicate", "store", 0, "-", <<>>)
                      /\ UNCHANGED <<taman, ai>>
                 ELSE /\ ai["taman"] <= MaxTaman
                      /\ taman' = taman \cup {[id |-> ai["taman"], nama |-> nama]}
                      /\ ai' = [ai EXCEPT !["taman"] = @ + 1]
                      /\ resp' = Resp("create_taman", 201, "none", "none", ai["taman"], "-", <<>>)
    /\ conns' = ConnsAfter(resp'.err)
    /\ io' = Writes(resp'.err)
    /\ UNCHANGED <<tanaman, petugas, kegiatan, laporan, now, wipe>>
    /\ UNCHANGED <<renderVars, authVars, launchVars>>

create_petugas(nama, fault) ==
    /\ IF Falsy(nama)
         THEN /\ resp' = Resp("create_petugas", 400, "validation", "fixed", 0, "-", <<>>)
              /\ UNCHANGED <<petugas, ai>>
       ELSE IF fault
         THEN /\ resp' = Resp("create_petugas", 400, "connection", "store", 0, "-", <<>>)
              /\ UNCHANGED <<petugas, ai>>
       ELSE /\ ~Locked("petugas")
            /\ ai["petugas"] <= MaxPetugas
            /\ petugas' = petugas \cup {[id |-> ai["petugas"], nama |-> nama]}
            /\ ai' = [ai EXCEPT !["petugas"] = @ + 1]
            /\ resp' = Resp("create_petugas", 201, "none", "none", ai["petugas"], "-", <<>>)
    /\ conns' = ConnsAfter(resp'.err)
    /\ io' = Writes(resp'.err)
    /\ UNCHANGED <<taman, tanaman, kegiatan, laporan, now, wipe>>
    /\ UNCHANGED <<renderVars, authVars, launchVars>>

create_kegiatan(jenis, fault) ==
    /\ IF Falsy(jenis)
         THEN /\ resp' = Resp("create_kegiatan", 400, "validation", "fixed", 0, "-", <<>>)
              /\ UNCHANGED <<kegiatan, ai>>
       ELSE IF fault
         THEN /\ resp' = Resp("create_kegiatan", 400, "connection", "store", 0, "-", <<>>)
              /\ UNCHANGED <<kegiatan, ai>>
       ELSE /\ ~Locked("kegiatan")
            /\ ai["kegiatan"] <= MaxKegiatan
            /\ kegiatan' = kegiatan \cup {[id |-> ai["kegiatan"], jenis |-> jenis]}
            /\ ai' = [ai EXCEPT !["kegiatan"] = @ + 1]
            /\ resp' = Resp("create_kegiatan", 201, "none", "none", ai["kegiatan"], "-", <<>>)
    /\ conns' = ConnsAfter(resp'.err)
    /\ io' = Writes(resp'.err)
    /\ UNCHANGED <<taman, tanaman, petugas, laporan, now, wipe>>
    /\ UNCHANGED <<renderVars, authVars, launchVars>>

create_tanaman(id_taman, nama_umum, fault) ==
    /\ IF ~IntOk(id_taman) \/ Falsy(nama_umum)
         THEN /\ resp' = Resp("create_tanaman", 400, "validation", "fixed", 0, "-", <<>>)
              /\ UNCHANGED <<tanaman, ai>>
       ELSE IF fault
         THEN /\ resp' = Resp("create_tanaman", 400, "connection", "store", 0, "-", <<>>)
              /\ UNCHANGED <<tanaman, ai>>
       ELSE /\ ~Locked("tanaman")
            /\ IF ~FkTanamanOk(id_taman)
                 THEN /\ resp' = Resp("create_tanaman", 400, "foreign_key", "store", 0, "-", <<>>)
                      /\ UNCHANGED <<tanaman, ai>>
                 ELSE /\ ai["tanaman"] <= MaxTanaman
                      /\ tanaman' = tanaman \cup
                            {[id |-> ai["tanaman"], id_taman |-> id_taman, nama_umum |-> nama_umum]}
                      /\ ai' = [ai EXCEPT !["tanaman"] = @ + 1]
                      /\ resp' = Resp("create_tanaman", 201, "none", "none", ai["tanaman"], "-", <<>>)
    /\ conns' = ConnsAfter(resp'.err)
    /\ io' = Writes(resp'.err)
    /\ UNCHANGED <<taman, petugas, kegiatan, laporan, now, wipe>>
    /\ UNCHANGED <<renderVars, authVars, launchVars>>

\* `not tanggal` of app.py:180: a missing, null or empty tanggal.
EmptyStr == 0 - 4
DateFalsy(v) == v \in {Absent, EmptyStr}

\* Mutant: the handler always inserts NOW().
LaporanTanggalAlwaysNow(tanggal) == now

\* app.py:180-187: the statement chosen, and the value it gives the column.
LaporanQuery(tanggal) == IF DateFalsy(tanggal) THEN "NOW" ELSE "PARAM"
LaporanTanggal(tanggal) == IF DateFalsy(tanggal) THEN now ELSE tanggal

\* env "fault": the connection or the statement fails.  env "lenient": the
\* server's sql_mode is not strict, so a string that is no datetime is stored
\* as the zero date with a warning; a strict server rejects it (1292).
LaporanEnv(tanggal) ==
    IF tanggal = BadDate THEN {"ok", "fault", "lenient"} ELSE {"ok", "fault"}

create_laporan(id_tanaman, id_petugas, id_kegiatan, tanggal, env) ==
    LET q == LaporanQuery(tanggal)
        v == LaporanTanggal(tanggal)
    IN
    /\ IF ~(IntOk(id_tanaman) /\ IntOk(id_petugas) /\ IntOk(id_kegiatan))
         THEN /\ resp' = Resp("create_laporan", 400, "validation", "fixed", 0, "-", <<>>)
              /\ UNCHANGED <<laporan, ai>>
       ELSE IF env = "fault"
         THEN /\ resp' = Resp("create_laporan", 400, "connection", "store", 0, q, <<>>)
              /\ UNCHANGED <<laporan, ai>>
       ELSE /\ ~Locked("laporan")
            /\ IF ~DateOk(v) /\ env # "lenient"
                 THEN /\ resp' = Resp("create_laporan", 400, "datetime", "store", 0, q, <<>>)
                      /\ UNCHANGED <<laporan, ai>>
               ELSE IF ~FkLaporanOk(id_tanaman, id_petugas, id_kegiatan)
                 THEN /\ resp' = Resp("create_laporan", 400, "foreign_key", "store", 0, q, <<>>)
                      /\ UNCHANGED <<laporan, ai>>
               ELSE /\ ai["laporan"] <= MaxLaporan
                    /\ laporan' = laporan \cup
                          {[id |-> ai["laporan"], id_tanaman |-> id_tanaman,
                            id_petugas |-> id_petugas, id_kegiatan |-> id_kegiatan,
                            tanggal |-> IF DateOk(v) THEN v ELSE ZeroDate]}
                    /\ ai' = [ai EXCEPT !["laporan"] = @ + 1]
                    /\ resp' = Resp("create_laporan", 201, "none", "none", ai["laporan"], q, <<>>)
    /\ conns' = ConnsAfter(resp'.err)
    /\ io' = Writes(resp'.err)
    /\ UNCHANGED <<taman, tanaman, petugas, kegiatan, now, wipe>>
    /\ UNCHANGED <<renderVars, authVars, launchVars>>

----------------------------------------------------------------------------
(* list_taman: one SELECT ... ORDER BY nama_taman ASC through rows(). *)

\* Mutant: ORDER BY nama_taman DESC.
RECURSIVE OrderByNamaDesc(_)
OrderByNamaDesc(rows) ==
    IF rows = {} THEN <<>>
    ELSE LET first == CHOOSE r \in rows : \A s \in rows : Collate(r.nama) >= Collate(s.nama)
         IN <<first>> \o OrderByNamaDesc(rows \ {first})

RECURSIVE OrderByNama(_)
OrderByNama(rows) ==
    IF rows = {} THEN <<>>
    ELSE LET first == CHOOSE r \in rows : \A s \in rows : Collate(r.nama) <= Collate(s.nama)
         IN <<first>> \o OrderByNama(rows \ {first})

list_taman(fault) ==
    /\ resp' = IF fault
                 THEN Resp("list_taman", 500, "connection", "framework", 0, "-", <<>>)
                 ELSE Resp("list_taman", 200, "none", "none", 0, "-", OrderByNama(taman))
    /\ conns' = ConnsAfter(resp'.err)
    /\ io' = Reads(resp'.err)
    /\ UNCHANGED <<taman, tanaman, petugas, kegiatan, laporan, ai, now, wipe>>
    /\ UNCHANGED <<renderVars, authVars, launchVars>>

----------------------------------------------------------------------------
(* The store's clock advances. *)

Tick ==
    /\ now < MaxClock
    /\ now' = now + 1
    /\ UNCHANGED <<taman, tanaman, petugas, kegiatan, laporan, ai, conns, wipe, resp, io>>
    /\ UNCHANGED <<renderVars, authVars, launchVars>>

----------------------------------------------------------------------------
(* admin_clear_all: the bulk wipe, one transaction on one connection.  The  *)
(* request is in flight between its statements, so other requests          *)
(* interleave with it.                                                      *)

\* Mutant: the parents are deleted before the Reports.
DeleteOrderReportsLast == <<"tanaman", "petugas", "kegiatan", "taman", "laporan">>

\* app.py:471-475.
DeleteOrder == <<"laporan", "tanaman", "petugas", "kegiatan", "taman">>

\* Mutant: the presence of the confirm key is taken for confirmation.
ConfirmedKeyPresent(parsed, confirm) == parsed /\ confirm # "absent"

\* `payload.get("confirm")` is truthy.
Confirmed(parsed, confirm) == parsed /\ confirm = "true"

\* The committed tables with the tables in del emptied.
Emptied(rows, t, del) == IF t \in del THEN {} ELSE rows

\* conn.commit(), or the implicit commit of ALTER TABLE: the deletes of the
\* transaction become the committed state.
CommitDeletes(del) ==
    /\ taman' = Emptied(taman, "taman", del)
    /\ tanaman' = Emptied(tanaman, "tanaman", del)
    /\ petugas' = Emptied(petugas, "petugas", del)
    /\ kegiatan' = Emptied(kegiatan, "kegiatan", del)
    /\ laporan' = Emptied(laporan, "laporan", del)

\* Mutant: the except clause commits what the transaction has deleted so far.
RollbackCommits(del) == CommitDeletes(del)

\* conn.rollback() in the except clause: the deletes of the transaction are
\* discarded.  When rollback() itself raises, the exception leaves the
\* handler, the finally clause closes the connection and the server discards
\* the open transaction: the tables are the same, the response is the
\* framework's 500.
RollbackDeletes(del) == UNCHANGED <<taman, tanaman, petugas, kegiatan, laporan>>

\* app.py:457-467.  An unparsable body is read as {} (silent=True).  get_conn()
\* stands outside the try: when it raises, the framework answers 500.
admin_clear_all_begin(parsed, confirm, reset, fault) ==
    /\ IF ~Confirmed(parsed, confirm)
         THEN /\ resp' = Resp("clear_all", 400, "validation", "fixed", 0, "-", <<>>)
              /\ io' = NoIo
              /\ UNCHANGED <<wipe, conns>>
       ELSE IF fault
         THEN /\ resp' = Resp("clear_all", 500, "connection", "framework", 0, "-", <<>>)
              /\ io' = NoIo
              /\ UNCHANGED <<wipe, conns>>
       ELSE /\ wipe.pc = "idle"
            /\ wipe' = [pc |-> "delete", k |-> 1, reset |-> reset, del |-> {}]
            /\ conns' = Open(conns)
            /\ UNCHANGED <<resp, io>>
    /\ UNCHANGED <<taman, tanaman, petugas, kegiatan, laporan, ai, now>>
    /\ UNCHANGED <<renderVars, authVars, launchVars>>

admin_clear_all_delete(fault) ==
    /\ wipe.pc = "delete"
    /\ LET t == DeleteOrder[wipe.k] IN
       IF fault \/ Restricted(t, wipe.del)
         THEN /\ RollbackDeletes(wipe.del)
              /\ \E rollback \in {"ok", "fails"} :
                    resp' = Resp("clear_all", 500,
                                 IF rollback = "fails" THEN "rollback_failed"
                                 ELSE IF fault THEN "delete_failed" ELSE "restrict",
                                 IF rollback = "fails" THEN "framework" ELSE "store",
                                 0, "-", <<>>)
              /\ io' = [r |-> 0, w |-> wipe.k]
              /\ wipe' = NoWipe
              /\ conns' = Close(conns)
         ELSE /\ wipe' = [wipe EXCEPT
                            !.del = @ \cup Deletes(t),
                            !.k = @ + 1,
                            !.pc = IF wipe.k < Len(DeleteOrder) THEN "delete"
                                   ELSE IF wipe.reset THEN "alter" ELSE "commit"]
              /\ UNCHANGED <<taman, tanaman, petugas, kegiatan, laporan, conns, resp, io>>
    /\ UNCHANGED <<ai, now>>
    /\ UNCHANGED <<renderVars, authVars, launchVars>>

\* app.py:478-484.  ALTER TABLE commits the open transaction before it runs
\* and resets the counter; when the statement fails the error is swallowed.
admin_clear_all_alter(fault) ==
    /\ wipe.pc = "alter"
    /\ IF fault
         THEN /\ wipe' = [wipe EXCEPT !.pc = "commit"]
              /\ UNCHANGED <<taman, tanaman, petugas, kegiatan, laporan, ai>>
         ELSE /\ CommitDeletes(wipe.del)
              /\ ai' = [t \in TableNames |-> 1]
              /\ wipe' = [wipe EXCEPT !.pc = "commit", !.del = {}]
    /\ UNCHANGED <<now, conns, resp, io>>
    /\ UNCHANGED <<renderVars, authVars, launchVars>>

admin_clear_all_commit(fault) ==
    /\ wipe.pc = "commit"
    /\ IF fault
         THEN /\ RollbackDeletes(wipe.del)
              /\ \E rollback \in {"ok", "fails"} :
                    resp' = Resp("clear_all", 500,
                                 IF rollback = "fails" THEN "rollback_failed" ELSE "commit_failed",
                                 IF rollback = "fails" THEN "framework" ELSE "store",
                                 0, "-", <<>>)
         ELSE /\ CommitDeletes(wipe.del)
              /\ resp' = Resp("clear_all", 200, "none", "none", 0, "-", <<>>)
    /\ io' = [r |-> 0, w |-> Len(DeleteOrder) + IF wipe.reset THEN Len(DeleteOrder) ELSE 0]
    /\ wipe' = NoWipe
    /\ conns' = Close(conns)
    /\ UNCHANGED <<ai, now>>
    /\ UNCHANGED <<renderVars, authVars, launchVars>>

----------------------------------------------------------------------------
(* The requests the model issues. *)

\* "" stands for a text field that is missing, null or empty.
NameIn(names) == names \cup {""}
IdIn(max) == {Absent, NonNumeric} \cup 1..max
RefIn(max) == {Absent} \cup 1..max
LuasIn == {Absent, NonNumeric, 120}
TanggalIn == {Absent, EmptyStr, BadDate} \cup 1..MaxClock
ConfirmIn == {"absent", "false", "true"}

\* Requests that differ only in a field their handler never reads are issued
\* once: a create_laporan whose identifiers fail int() is issued without
\* tanggal, an unconfirmed wipe without the reset flag.
Next ==
    \/ \E nama \in NameIn(ParkNames), luas \in LuasIn, fault \in BOOLEAN :
          create_taman(nama, luas, fault)
    \/ \E nama \in NameIn({StaffName}), fault \in BOOLEAN :
          create_petugas(nama, fault)
    \/ \E jenis \in NameIn({ActivityName}), fault \in BOOLEAN :
          create_kegiatan(jenis, fault)
    \/ \E id_taman \in IdIn(MaxTaman), nama \in NameIn(PlantNames), fault \in BOOLEAN :
          create_tanaman(id_taman, nama, fault)
    \/ \E id_tanaman \in IdIn(MaxTanaman), id_petugas \in RefIn(MaxPetugas),
          id_kegiatan \in RefIn(MaxKegiatan), tanggal \in TanggalIn :
          \E env \in LaporanEnv(tanggal) :
            /\ (IntOk(id_tanaman) /\ IntOk(id_petugas) /\ IntOk(id_kegiatan))
                  \/ (tanggal = Absent /\ env = "ok")
            /\ create_laporan(id_tanaman, id_petugas, id_kegiatan, tanggal, env)
    \/ \E fault \in BOOLEAN : list_taman(fault)
    \/ Tick
    \/ \E parsed \in BOOLEAN, confirm \in ConfirmIn, reset \in BOOLEAN, fault \in BOOLEAN :
          /\ (parsed /\ confirm = "true") \/ (reset /\ ~fault)
          /\ admin_clear_all_begin(parsed, confirm, reset, fault)
    \/ \E fault \in BOOLEAN : admin_clear_all_delete(fault)
    \/ \E fault \in BOOLEAN : admin_clear_all_alter(fault)
    \/ \E fault \in BOOLEAN : admin_clear_all_commit(fault)

Spec == Init /\ [][Next]_vars

\* The steps of a wipe that is in flight.
WipeStep ==
    \/ \E fault \in BOOLEAN : admin_clear_all_delete(fault)
    \/ \E fault \in BOOLEAN : admin_clear_all_alter(fault)
    \/ \E fault \in BOOLEAN : admin_clear_all_commit(fault)

\* The server takes one request at a time: a request starts only when no
\* wipe is in flight.
NextSerial ==
    \/ wipe.pc = "idle" /\ Next
    \/ wipe.pc # "idle" /\ WipeStep

SpecSerial == Init /\ [][NextSerial]_vars

----------------------------------------------------------------------------
(* _build_report_html.  A row is a record of the columns the renderer reads; *)
(* an identifier is a number >= 0, NoneV for None and NonNumeric for a value *)
(* on which int() raises.  Of the document the model keeps rows5, the rows   *)
(* of the fifth table before _build_table escapes them.                      *)

NoneV == 0 - 1

\* Mutant: the name lookup compares names as written.
LowerKeepsCase(s) == s

\* str.lower() on the names of the model.
Lower(s) ==
    CASE s \in {"Mawar", "MAWAR", "mawar"} -> "mawar"
      [] s \in {"Melati", "MELATI", "melati"} -> "melati"
      [] OTHER -> s

Last(S) == CHOOSE i \in S : \A j \in S : j <= i

\* app.py:228.  int() outside any try: a non-numeric id_taman raises.
TamanMapRaises(b) ==
    \E i \in 1..Len(b.taman) : b.taman[i].id_taman = NonNumeric

\* map_taman_name_by_id.get(id, "-"): the last Park row with that key wins.
TamanNameById(b, id) ==
    LET hits == {i \in 1..Len(b.taman) :
                    b.taman[i].id_taman # NoneV /\ b.taman[i].id_taman = id}
    IN IF hits = {} THEN "-" ELSE b.taman[Last(hits)].nama_taman

\* Mutant: the second lookup is keyed by the Plant's Park identifier.
TamanNameByParkKey(b, id) ==
    LET hits == {i \in 1..Len(b.tanaman) :
                    /\ IntOk(b.tanaman[i].id_tanaman)
                    /\ IntOk(b.tanaman[i].id_taman)
                    /\ b.tanaman[i].id_taman = id}
    IN IF hits = {} THEN "-" ELSE TamanNameById(b, b.tanaman[Last(hits)].id_taman)

\* app.py:229-237, map_taman_name_by_tanaman_id.get(id, "-"): a Plant row
\* enters the map when int() takes both its identifiers; the last row with
\* the key wins.
TamanNameByTanamanId(b, id) ==
    LET hits == {i \in 1..Len(b.tanaman) :
                    /\ IntOk(b.tanaman[i].id_tanaman)
                    /\ IntOk(b.tanaman[i].id_taman)
                    /\ b.tanaman[i].id_tanaman = id}
    IN IF hits = {} THEN "-" ELSE TamanNameById(b, b.tanaman[Last(hits)].id_taman)

\* app.py:238, map_tanaman_by_name.get(key): the index of the last Plant row
\* with that lower-cased name, 0 when there is none.
TanamanByName(b, key) ==
    LET hits == {i \in 1..Len(b.tanaman) : Lower(b.tanaman[i].nama_umum) = key}
    IN IF hits = {} THEN 0 ELSE Last(hits)

\* Mutant: an identifier that does not resolve falls back to the name.
NamaTamanFallsBack(b, L) ==
    LET t == TanamanByName(b, Lower(L.tanaman))
        byName == IF L.tanaman # "" /\ t # 0 /\ IntOk(b.tanaman[t].id_taman)
                    THEN TamanNameById(b, b.tanaman[t].id_taman) ELSE "-"
        byId == IF IntOk(L.id_tanaman) THEN TamanNameByTanamanId(b, L.id_tanaman) ELSE "-"
    IN IF byId # "-" THEN byId ELSE byName

\* app.py:269-278: the Park name of one Report row.
NamaTaman(b, L) ==
    IF L.id_tanaman # NoneV
      THEN IF IntOk(L.id_tanaman) THEN TamanNameByTanamanId(b, L.id_tanaman) ELSE "-"
    ELSE IF L.tanaman # ""
      THEN LET t == TanamanByName(b, Lower(L.tanaman))
           IN IF t # 0 /\ b.tanaman[t].id_taman # NoneV /\ IntOk(b.tanaman[t].id_taman)
                THEN TamanNameById(b, b.tanaman[t].id_taman)
                ELSE "-"
    ELSE "-"

\* app.py:260.  int(x.get("id_taman") or 0) outside any try.
Sec4Raises(b) ==
    \E i \in 1..Len(b.tanaman) : b.tanaman[i].id_taman = NonNumeric

Rows5(b) ==
    [i \in 1..Len(b.laporan) |->
        [no |-> i, nama_taman |-> NamaTaman(b, b.laporan[i]), tanaman |-> b.laporan[i].tanaman]]

\* app.py:221-225, `bundle.get(key) or []`.
RowsOf(b, key) == IF key \in b.has THEN b[key] ELSE <<>>

Normal(b) ==
    [taman |-> RowsOf(b, "taman"), petugas |-> RowsOf(b, "petugas"),
     kegiatan |-> RowsOf(b, "kegiatan"), tanaman |-> RowsOf(b, "tanaman"),
     laporan |-> RowsOf(b, "laporan")]

\* The fixed headers of the five tables, app.py:242, 247, 252, 257, 290.
Head1 == <<"No.", "Nama", "Luas", "Lokasi">>
Head2 == <<"No.", "Nama Petugas", "Jabatan">>
Head3 == <<"No.", "Jenis Kegiatan">>
Head4 == <<"No.", "Nama Taman", "Nama Tanaman", "Nama Ilmiah", "Jenis">>
Head5 == <<"No.", "Tanggal", "Nama Taman", "Nama Tanaman", "Kegiatan", "Isi Laporan">>

\* Mutant: the table is built without its header row.
TableNoHead(head, body) == [head |-> <<>>, body |-> body]

\* _build_table(headers, rows_): a header row and one body row for each row.
Table(head, body) == [head |-> head, body |-> body]

\* app.py:241-265.  Of each body row the model keeps the number and the
\* cells it has columns for.
Sec1(b) == Table(Head1, [i \in 1..Len(b.taman) |->
                            [no |-> i, nama |-> b.taman[i].nama_taman]])
Sec2(b) == Table(Head2, [i \in 1..Len(b.petugas) |->
                            [no |-> i, nama |-> b.petugas[i].nama_petugas]])
Sec3(b) == Table(Head3, [i \in 1..Len(b.kegiatan) |->
                            [no |-> i, jenis |-> b.kegiatan[i].jenis_kegiatan]])
Sec4(b) == Table(Head4, [i \in 1..Len(b.tanaman) |->
                            [no |-> i,
                             nama_taman |-> TamanNameById(b,
                                 IF b.tanaman[i].id_taman = NoneV THEN 0
                                 ELSE b.tanaman[i].id_taman),
                             nama_umum |-> b.tanaman[i].nama_umum]])
Sec5(b) == Table(Head5, Rows5(b))

\* The document, or the exception that leaves _build_report_html.
Render(given) ==
    LET b == Normal(given) IN
    IF TamanMapRaises(b) \/ Sec4Raises(b)
      THEN [built |-> TRUE, raised |-> TRUE, rows5 |-> <<>>, secs |-> <<>>]
      ELSE [built |-> TRUE, raised |-> FALSE, rows5 |-> Rows5(b),
            secs |-> <<Sec1(b), Sec2(b), Sec3(b), Sec4(b), Sec5(b)>>]

build_report_html ==
    /\ ~doc.built
    /\ doc' = Render(bundle)
    /\ UNCHANGED <<bundle, cell, td>>
    /\ UNCHANGED <<storeVars, authVars, launchVars>>

(* The bundles the renderer is given: row-sets as the queries of report_html *)
(* return them, Parks by name, Plants by (id_taman, id_tanaman), with primary *)
(* keys and Park names unique; Report rows carry a Plant identifier, a Plant *)
(* display name, or both.                                                    *)

BundleParkRows == [id_taman : 1..2, nama_taman : {"Taman A", "Taman B"}]
BundlePlantRows ==
    [id_tanaman : 10..(9 + MaxPlants), id_taman : 1..2, nama_umum : {"Mawar", "Melati"}]
BundleReportRows == [id_tanaman : {NoneV} \cup 10..11, tanaman : {"", "MAWAR", "Melati"}]

ParkKey(r) == Collate(r.nama_taman)
PlantKey(r) == r.id_taman * 100 + r.id_tanaman

\* ORDER BY nama_taman of the Park query.
RECURSIVE OrderParks(_)
OrderParks(rows) ==
    IF rows = {} THEN <<>>
    ELSE LET first == CHOOSE r \in rows : \A q \in rows : ParkKey(r) <= ParkKey(q)
         IN <<first>> \o OrderParks(rows \ {first})

\* ORDER BY id_taman, id_tanaman of the Plant query.
RECURSIVE OrderPlants(_)
OrderPlants(rows) ==
    IF rows = {} THEN <<>>
    ELSE LET first == CHOOSE r \in rows : \A q \in rows : PlantKey(r) <= PlantKey(q)
         IN <<first>> \o OrderPlants(rows \ {first})

BundleParks ==
    {OrderParks(S) : S \in
        {S \in SUBSET BundleParkRows :
            \A r1 \in S, r2 \in S :
                (r1.id_taman = r2.id_taman \/ r1.nama_taman = r2.nama_taman) => r1 = r2}}

BundlePlants ==
    {OrderPlants(S) : S \in
        {S \in SUBSET BundlePlantRows :
            /\ Cardinality(S) <= MaxPlants
            /\ \A r1 \in S, r2 \in S : r1.id_tanaman = r2.id_tanaman => r1 = r2}}

AllKeys == {BundleKeys[i] : i \in 1..Len(BundleKeys)}

BundleReports == UNION {[1..n -> BundleReportRows] : n \in 0..MaxReports}

InitReport ==
    /\ taman = {} /\ tanaman = {} /\ petugas = {} /\ kegiatan = {} /\ laporan = {}
    /\ ai = [t \in TableNames |-> 1]
    /\ now = 1
    /\ conns = 0
    /\ wipe = NoWipe
    /\ resp = NoResp
    /\ io = NoIo
    /\ bundle \in [op : {"direct"}, has : {AllKeys}, taman : BundleParks, petugas : {<<>>},
                    kegiatan : {<<>>}, tanaman : BundlePlants, laporan : BundleReports]
    /\ doc = NoDoc
    /\ cell = <<>>
    /\ td = <<>>
    /\ users = {}
    /\ LauncherIdle

NextReport == build_report_html

SpecReport == InitReport /\ [][NextReport]_vars

(* Bundles as any caller may hand them over: identifiers that are None or   *)
(* that int() rejects, Plants of Parks that are not in the bundle, Reports  *)
(* of Plants that are not.                                                  *)

AnyParkRows ==
    {[id_taman |-> 1, nama_taman |-> "Taman A"], [id_taman |-> 2, nama_taman |-> "Taman B"],
     [id_taman |-> NoneV, nama_taman |-> "Taman A"],
     [id_taman |-> NonNumeric, nama_taman |-> "Taman B"]}
AnyPlantRows ==
    [id_tanaman : {10, 11, NonNumeric}, id_taman : {1, 3, NoneV, NonNumeric},
     nama_umum : {"Mawar"}]
AnyReportRows == [id_tanaman : {NoneV, 10, 12, NonNumeric}, tanaman : {"", "MAWAR", "Melati"}]

SeqsUpTo(S, n) == UNION {[1..k -> S] : k \in 0..n}

InitReportAny ==
    /\ taman = {} /\ tanaman = {} /\ petugas = {} /\ kegiatan = {} /\ laporan = {}
    /\ ai = [t \in TableNames |-> 1]
    /\ now = 1
    /\ conns = 0
    /\ wipe = NoWipe
    /\ resp = NoResp
    /\ io = NoIo
    /\ bundle \in [op : {"direct"}, has : {AllKeys}, taman : SeqsUpTo(AnyParkRows, 1),
                    petugas : {<<>>}, kegiatan : {<<>>},
                    tanaman : SeqsUpTo(AnyPlantRows, MaxPlants),
                    laporan : SeqsUpTo(AnyReportRows, 1)]
    /\ doc = NoDoc
    /\ cell = <<>>
    /\ td = <<>>
    /\ users = {}
    /\ LauncherIdle

SpecReportAny == InitReportAny /\ [][NextReport]_vars

(* Bundles in which each of the five row-sets is missing, empty or one row. *)

OneRow(key) ==
    CASE key = "taman" -> [id_taman |-> 1, nama_taman |-> "Taman A"]
      [] key = "petugas" -> [id_petugas |-> 1, nama_petugas |-> StaffName]
      [] key = "kegiatan" -> [id_kegiatan |-> 1, jenis_kegiatan |-> ActivityName]
      [] key = "tanaman" -> [id_tanaman |-> 10, id_taman |-> 1, nama_umum |-> "Mawar"]
      [] key = "laporan" -> [id_tanaman |-> 10, tanaman |-> "Mawar"]

ShapeRows(has, key) == IF key \in has THEN {<<>>, <<OneRow(key)>>} ELSE {<<>>}

InitReportShape ==
    /\ taman = {} /\ tanaman = {} /\ petugas = {} /\ kegiatan = {} /\ laporan = {}
    /\ ai = [t \in TableNames |-> 1]
    /\ now = 1
    /\ conns = 0
    /\ wipe = NoWipe
    /\ resp = NoResp
    /\ io = NoIo
    /\ \E has \in SUBSET AllKeys :
          bundle \in [op : {"direct"}, has : {has}, taman : ShapeRows(has, "taman"),
                      petugas : ShapeRows(has, "petugas"),
                      kegiatan : ShapeRows(has, "kegiatan"),
                      tanaman : ShapeRows(has, "tanaman"),
                      laporan : ShapeRows(has, "laporan")]
    /\ doc = NoDoc
    /\ cell = <<>>
    /\ td = <<>>
    /\ users = {}
    /\ LauncherIdle

SpecReportShape == InitReportShape /\ [][NextReport]_vars

----------------------------------------------------------------------------
(* _escape_html and _build_table.  A cell value is a sequence of characters, *)
(* or NoneCell for None.                                                     *)

NoneCell == <<"None">>

\* str.replace(ch, by): every occurrence of the character, left to right.
RECURSIVE Replace(_, _, _)
Replace(s, ch, by) ==
    IF s = <<>> THEN <<>>
    ELSE (IF Head(s) = ch THEN by ELSE <<Head(s)>>) \o Replace(Tail(s), ch, by)

Amp == <<"&", "a", "m", "p", ";">>
Lt == <<"&", "l", "t", ";">>
Gt == <<"&", "g", "t", ";">>
Quot == <<"&", "q", "u", "o", "t", ";">>
Apos == <<"&", "#", "3", "9", ";">>

\* Mutant: the single quote is left as it is.
EscapeNoApos(c) ==
    LET s == IF c = NoneCell THEN <<>> ELSE c
    IN Replace(Replace(Replace(Replace(s, "&", Amp), "<", Lt), ">", Gt), "\"", Quot)

\* app.py:203-209.
EscapeHtml(c) ==
    LET s == IF c = NoneCell THEN <<>> ELSE c
    IN Replace(Replace(Replace(Replace(Replace(s, "&", Amp), "<", Lt), ">", Gt),
                       "\"", Quot), "'", Apos)

\* app.py:215: one <td> of a body row.
build_table_cell ==
    /\ td = <<>>
    /\ td' = <<"<td>">> \o EscapeHtml(cell) \o <<"</td>">>
    /\ UNCHANGED <<bundle, doc, cell>>
    /\ UNCHANGED <<storeVars, authVars, launchVars>>

CellChars == {"&", "<", ">", "\"", "'", "a", ";"}
CellValues == {NoneCell} \cup UNION {[1..n -> CellChars] : n \in 0..MaxCellLen}

InitEscape ==
    /\ taman = {} /\ tanaman = {} /\ petugas = {} /\ kegiatan = {} /\ laporan = {}
    /\ ai = [t \in TableNames |-> 1]
    /\ now = 1
    /\ conns = 0
    /\ wipe = NoWipe
    /\ resp = NoResp
    /\ io = NoIo
    /\ bundle = NoBundle
    /\ doc = NoDoc
    /\ cell \in CellValues
    /\ td = <<>>
    /\ users = {}
    /\ LauncherIdle

NextEscape == build_table_cell

SpecEscape == InitEscape /\ [][NextEscape]_vars

----------------------------------------------------------------------------
(* The read endpoints.  rows() opens its own connection for each call and   *)
(* reads what is committed at that moment: a wipe in progress is invisible  *)
(* until its commit.  The report endpoints call rows() five times; the      *)
(* model takes one step for each of the first four calls, and one for the   *)
(* fifth call with the rest of the handler.                                 *)

\* The rows of a set in ascending order of rank, a number for each row.
RECURSIVE Ordered(_, _)
Ordered(rs, rank) ==
    IF rs = {} THEN <<>>
    ELSE LET first == CHOOSE r \in rs : \A o \in rs : rank[r] <= rank[o]
         IN <<first>> \o Ordered(rs \ {first}, rank)

\* LIMIT n.
Limit(seq, n) == SubSeq(seq, 1, IF n < Len(seq) THEN n ELSE Len(seq))

\* The default of ?limit= in list_laporan and in the report endpoints.
ListLimit == 20
ReportLimit == 100000

\* ... FROM taman ORDER BY nama_taman
SelectTaman ==
    LET o == Ordered(taman, [r \in taman |-> Collate(r.nama) * 100 + r.id])
    IN [i \in 1..Len(o) |-> [id_taman |-> o[i].id, nama_taman |-> o[i].nama]]

\* ... FROM petugas ORDER BY nama_petugas.  The model has one staff name, so
\* the rows come in the order of their keys.
SelectPetugas ==
    LET o == Ordered(petugas, [r \in petugas |-> r.id])
    IN [i \in 1..Len(o) |-> [id_petugas |-> o[i].id, nama_petugas |-> o[i].nama]]

\* ... FROM kegiatan ORDER BY jenis_kegiatan, one activity name likewise.
SelectKegiatan ==
    LET o == Ordered(kegiatan, [r \in kegiatan |-> r.id])
    IN [i \in 1..Len(o) |-> [id_kegiatan |-> o[i].id, jenis_kegiatan |-> o[i].jenis]]

\* ... FROM tanaman ORDER BY id_taman, id_tanaman
SelectTanamanAll ==
    LET o == Ordered(tanaman, [r \in tanaman |-> r.id_taman * 100 + r.id])
    IN [i \in 1..Len(o) |->
          [id_tanaman |-> o[i].id, id_taman |-> o[i].id_taman, nama_umum |-> o[i].nama_umum]]

\* ... FROM tanaman WHERE id_taman = %s ORDER BY id_tanaman DESC
SelectTanamanOf(id_taman) ==
    LET of == {r \in tanaman : r.id_taman = id_taman}
        o == Ordered(of, [r \in of |-> 100 - r.id])
    IN [i \in 1..Len(o) |->
          [id_tanaman |-> o[i].id, id_taman |-> o[i].id_taman, nama_umum |-> o[i].nama_umum]]

\* ... FROM laporan l JOIN tanaman t JOIN petugas p JOIN kegiatan k
\*     ORDER BY l.tanggal DESC LIMIT %s
SelectLaporan(limit) ==
    LET joined == {l \in laporan : /\ l.id_tanaman \in Ids(tanaman)
                                    /\ l.id_petugas \in Ids(petugas)
                                    /\ l.id_kegiatan \in Ids(kegiatan)}
        o == Ordered(joined, [l \in joined |-> (MaxClock - l.tanggal) * 100 + l.id])
    IN Limit([i \in 1..Len(o) |->
                [id_tanaman |-> o[i].id_tanaman,
                 tanaman |-> (CHOOSE t \in tanaman : t.id = o[i].id_tanaman).nama_umum]],
             limit)

\* The k-th query of report_all and of report_html.
Select(key) ==
    CASE key = "taman" -> SelectTaman
      [] key = "petugas" -> SelectPetugas
      [] key = "kegiatan" -> SelectKegiatan
      [] key = "tanaman" -> SelectTanamanAll
      [] key = "laporan" -> SelectLaporan(ReportLimit)

\* A handler that is one call of rows() with no try around it.
ReadOnly(op, data, fault) ==
    /\ resp' = IF fault
                 THEN Resp(op, 500, "connection", "framework", 0, "-", <<>>)
                 ELSE Resp(op, 200, "none", "none", 0, "-", data)
    /\ conns' = ConnsAfter(resp'.err)
    /\ io' = Reads(resp'.err)
    /\ UNCHANGED <<taman, tanaman, petugas, kegiatan, laporan, ai, now, wipe>>
    /\ UNCHANGED <<renderVars, authVars, launchVars>>

\* app.py:49-55: the one handler that catches every exception of its read.
health(fault) ==
    /\ resp' = IF fault
                 THEN Resp("health", 500, "connection", "store", 0, "-", <<>>)
                 ELSE Resp("health", 200, "none", "none", 0, "-", <<>>)
    /\ conns' = ConnsAfter(resp'.err)
    /\ io' = Reads(resp'.err)
    /\ UNCHANGED <<taman, tanaman, petugas, kegiatan, laporan, ai, now, wipe>>
    /\ UNCHANGED <<renderVars, authVars, launchVars>>

list_petugas(fault) == ReadOnly("list_petugas", SelectPetugas, fault)

list_kegiatan(fault) == ReadOnly("list_kegiatan", SelectKegiatan, fault)

\* app.py:117-125.  request.args.get("id_taman", type=int) is None for a
\* missing or non-numeric parameter, and `not id_taman` also refuses 0.
list_tanaman(id_taman, fault) ==
    IF ~IntOk(id_taman) \/ id_taman = 0
      THEN /\ resp' = Resp("list_tanaman", 400, "validation", "fixed", 0, "-", <<>>)
           /\ conns' = ConnsAfter(resp'.err)
           /\ io' = Reads(resp'.err)
           /\ UNCHANGED <<taman, tanaman, petugas, kegiatan, laporan, ai, now, wipe>>
           /\ UNCHANGED <<renderVars, authVars, launchVars>>
      ELSE ReadOnly("list_tanaman", SelectTanamanOf(id_taman), fault)

list_tanaman_all(fault) == ReadOnly("list_tanaman_all", SelectTanamanAll, fault)

list_laporan(limit, fault) == ReadOnly("list_laporan", SelectLaporan(limit), fault)

\* One step of a report endpoint.  bundle.has holds the keys read so far; a
\* failing rows() raises out of the handler.  With the fifth row-set the
\* handler ends: report_all answers with the bundle, report_html with the
\* document _build_report_html makes of it.
report_step(op, fault) ==
    LET k == Cardinality(bundle.has) + 1
        keys == {BundleKeys[k]}
        got == [key \in DOMAIN bundle |->
                   IF key = "op" THEN op
                   ELSE IF key = "has" THEN bundle.has \cup keys
                   ELSE IF key \in keys THEN Select(key)
                   ELSE bundle[key]]
    IN
    /\ bundle.op \in {"none", op}
    /\ IF fault
         THEN /\ bundle' = NoBundle
              /\ resp' = Resp(op, 500, "connection", "framework", 0, "-", <<>>)
              /\ io' = [r |-> k, w |-> 0]
       ELSE IF Cardinality(got.has) < Len(BundleKeys)
         THEN /\ bundle' = got
              /\ UNCHANGED <<resp, io>>
       ELSE /\ bundle' = NoBundle
            /\ io' = [r |-> Len(BundleKeys), w |-> 0]
            /\ resp' = IF op = "report_all"
                         THEN Resp(op, 200, "none", "none", 0, "-", Normal(got))
                       ELSE IF Render(got).raised
                         THEN Resp(op, 500, "unhandled", "framework", 0, "-", <<>>)
                       ELSE Resp(op, 200, "none", "none", 0, "-", Render(got))
    /\ UNCHANGED <<taman, tanaman, petugas, kegiatan, laporan, ai, now, conns, wipe>>
    /\ UNCHANGED <<doc, cell, td>>
    /\ UNCHANGED <<authVars, launchVars>>

report_all(fault) == report_step("report_all", fault)

report_html(fault) == report_step("report_html", fault)

ListIdIn == {Absent, 0} \cup 1..MaxTaman
LimitIn == {0, ListLimit}

\* The requests that change the store: accepted creations, a refused one,
\* and a confirmed wipe with counter reset whose statements succeed.
Writer ==
    \/ \E nama \in {"Taman A", "Taman B"} : create_taman(nama, Absent, FALSE)
    \/ \E nama \in NameIn({StaffName}) : create_petugas(nama, FALSE)
    \/ create_kegiatan(ActivityName, FALSE)
    \/ \E id_taman \in 1..MaxTaman : create_tanaman(id_taman, "Mawar", FALSE)
    \/ create_laporan(1, 1, 1, Absent, "ok")
    \/ admin_clear_all_begin(TRUE, "true", TRUE, FALSE)
    \/ admin_clear_all_delete(FALSE)
    \/ admin_clear_all_alter(FALSE)
    \/ admin_clear_all_commit(FALSE)

\* The requests that only read.
Reader ==
    \/ \E fault \in BOOLEAN : health(fault)
    \/ \E fault \in BOOLEAN : list_taman(fault)
    \/ \E fault \in BOOLEAN : list_petugas(fault)
    \/ \E fault \in BOOLEAN : list_kegiatan(fault)
    \/ \E id_taman \in ListIdIn, fault \in BOOLEAN : list_tanaman(id_taman, fault)
    \/ \E fault \in BOOLEAN : list_tanaman_all(fault)
    \/ \E limit \in LimitIn, fault \in BOOLEAN : list_laporan(limit, fault)

\* Writers run at any moment, also between the reads of a report; the other
\* read requests, which change nothing a report reads, run between reports.
NextEndpoints ==
    \/ Writer
    \/ bundle.op = "none" /\ Reader
    \/ \E fault \in BOOLEAN : report_all(fault)
    \/ \E fault \in BOOLEAN : report_html(fault)

SpecEndpoints == Init /\ [][NextEndpoints]_vars

----------------------------------------------------------------------------
(* auth_sqlite.register: the credential store.  A username is a sequence of *)
(* characters; of the password the handler reads only its length.           *)

\* str.strip(): leading and trailing blanks removed.
RECURSIVE LStrip(_)
LStrip(s) == IF s # <<>> /\ Head(s) = " " THEN LStrip(Tail(s)) ELSE s

RECURSIVE RStrip(_)
RStrip(s) == IF s # <<>> /\ s[Len(s)] = " " THEN RStrip(SubSeq(s, 1, Len(s) - 1)) ELSE s

\* Mutant: the username is stored as it was sent.
StripNothing(s) == s

Strip(s) == RStrip(LStrip(s))

\* Mutant: users is created without UNIQUE on username.
UsernameNeverTaken(username) == FALSE

\* username TEXT NOT NULL UNIQUE: the insert raises sqlite3.IntegrityError.
UsernameTaken(username) == \E u \in users : u.username = username

\* auth_sqlite.py:65-87.  pwlen is len(password), 0 for a missing one.
\* fault: sqlite3 raises an error that is no IntegrityError (database locked,
\* file unreadable), which the handler does not catch.
register(raw, pwlen, fault) ==
    LET username == Strip(raw) IN
    /\ IF username = <<>> \/ pwlen = 0
         THEN /\ resp' = Resp("register", 400, "validation", "fixed", 0, "-", <<>>)
              /\ UNCHANGED users
       ELSE IF pwlen < 6
         THEN /\ resp' = Resp("register", 400, "validation", "fixed", 0, "-", <<>>)
              /\ UNCHANGED users
       ELSE IF fault
         THEN /\ resp' = Resp("register", 500, "connection", "framework", 0, "-", <<>>)
              /\ UNCHANGED users
       ELSE IF UsernameTaken(username)
         THEN /\ resp' = Resp("register", 409, "duplicate", "fixed", 0, "-", <<>>)
              /\ UNCHANGED users
       ELSE /\ Cardinality(users) < MaxUsers
            /\ users' = users \cup {[id |-> Cardinality(users) + 1, username |-> username]}
            /\ resp' = Resp("register", 201, "none", "none", Cardinality(users) + 1, "-", <<>>)
    /\ UNCHANGED <<taman, tanaman, petugas, kegiatan, laporan, ai, now, conns, wipe, io>>
    /\ UNCHANGED <<renderVars, launchVars>>

NameChars == {" ", "a", "b"}
UsernameIn == UNION {[1..n -> NameChars] : n \in 0..MaxNameLen}
PwLenIn == {0, 5, 6}

NextAuth ==
    \E raw \in UsernameIn, pwlen \in PwLenIn, fault \in BOOLEAN : register(raw, pwlen, fault)

SpecAuth == Init /\ [][NextAuth]_vars

----------------------------------------------------------------------------
(* run_both.main and its quit listener.  A line is a sequence of            *)
(* characters, empty at end of file.  Each step is one statement of a       *)
(* thread that reads or changes what the other thread shares with it: the   *)
(* list procs and the children.                                             *)

Blank == {" ", "\n"}

\* str.strip() on a line.
RECURSIVE LStripLine(_)
LStripLine(s) == IF s # <<>> /\ Head(s) \in Blank THEN LStripLine(Tail(s)) ELSE s

RECURSIVE RStripLine(_)
RStripLine(s) ==
    IF s # <<>> /\ s[Len(s)] \in Blank THEN RStripLine(SubSeq(s, 1, Len(s) - 1)) ELSE s

\* str.lower() on the characters of the model.
LowerChar(c) ==
    CASE c = "Q" -> "q"
      [] c = "E" -> "e"
      [] OTHER -> c

\* line.strip().lower()
StripLower(s) == LET t == RStripLine(LStripLine(s)) IN [i \in 1..Len(t) |-> LowerChar(t[i])]

\* run_both.py:193.
QuitWords == {<<"q">>, <<"q", "u", "i", "t">>, <<"e", "x", "i", "t">>}

\* run_both.py:165: p.poll() is None.
Alive(c) == child[c] = "running"

\* terminate_process(p): nothing for a child that has exited; otherwise the
\* signal to its group, or p.terminate() when that raises.
terminate_process(c) ==
    sent' = IF Alive(c) THEN sent \cup {c} ELSE sent

\* run_both.py:215-216.
main_start_listener ==
    /\ main.pc = "start_listener"
    /\ tq' = [pc |-> "read", i |-> 0]
    /\ main' = [pc |-> "start", i |-> 0]
    /\ UNCHANGED <<procs, child, sent, line, quit>>
    /\ UNCHANGED <<storeVars, renderVars, authVars>>

\* run_both.py:219-220: procs.append(start(...)), the next child of the two.
\* fails: Popen raises, which leads to the finally block.
main_start(fails) ==
    /\ main.pc = "start"
    /\ IF fails
         THEN /\ main' = [pc |-> "finally", i |-> 1]
              /\ UNCHANGED <<procs, child>>
         ELSE LET c == Children[Len(procs) + 1] IN
              /\ procs' = Append(procs, c)
              /\ child' = [child EXCEPT ![c] = "running"]
              /\ main' = [pc |-> IF Len(procs') = Len(Children) THEN "loop" ELSE "start",
                           i |-> 0]
    /\ UNCHANGED <<sent, tq, line, quit>>
    /\ UNCHANGED <<storeVars, renderVars, authVars>>

\* run_both.py:223-231: the loop ends when no child is alive; otherwise it
\* waits half a second for each and looks again.
main_loop ==
    /\ main.pc = "loop"
    /\ main' = IF \E j \in 1..Len(procs) : Alive(procs[j])
                 THEN main ELSE [pc |-> "finally", i |-> 1]
    /\ UNCHANGED <<procs, child, sent, tq, line, quit>>
    /\ UNCHANGED <<storeVars, renderVars, authVars>>

\* run_both.py:233, stop_all() in the finally block: one turn of its loop.
main_stop_all ==
    /\ main.pc = "finally"
    /\ IF main.i > Len(procs)
         THEN /\ main' = [pc |-> "wait", i |-> 0]
              /\ UNCHANGED sent
         ELSE /\ terminate_process(procs[main.i])
              /\ main' = [main EXCEPT !.i = @ + 1]
    /\ UNCHANGED <<procs, child, tq, line, quit>>
    /\ UNCHANGED <<storeVars, renderVars, authVars>>

\* run_both.py:235-242: each child is waited for and killed if it stays;
\* main returns, and the daemon listener ends with the process.
main_wait ==
    /\ main.pc = "wait"
    /\ child' = [c \in DOMAIN child |-> IF Alive(c) THEN "exited" ELSE child[c]]
    /\ main' = [pc |-> "done", i |-> 0]
    /\ UNCHANGED <<procs, sent, tq, line, quit>>
    /\ UNCHANGED <<storeVars, renderVars, authVars>>

\* run_both.py:190-195: one line read.  End of file ends the listener; a
\* quit word calls stop_callback; any other line is read over.
wait_for_quit(typed) ==
    /\ tq.pc = "read"
    /\ main.pc # "done"
    /\ line' = typed
    /\ IF typed = <<>>
         THEN /\ tq' = [pc |-> "done", i |-> 0]
              /\ UNCHANGED quit
       ELSE IF StripLower(typed) \in QuitWords
         THEN /\ tq' = [pc |-> "stop", i |-> 1]
              /\ quit' = TRUE
       ELSE UNCHANGED <<tq, quit>>
    /\ UNCHANGED <<procs, child, sent, main>>
    /\ UNCHANGED <<storeVars, renderVars, authVars>>

\* run_both.py:210-212, stop_all() called by the listener: one turn of
\* `for p in procs`, which meets a child appended while it runs.
stop_all ==
    /\ tq.pc = "stop"
    /\ main.pc # "done"
    /\ IF tq.i > Len(procs)
         THEN /\ tq' = [pc |-> "done", i |-> 0]
              /\ UNCHANGED sent
         ELSE /\ terminate_process(procs[tq.i])
              /\ tq' = [tq EXCEPT !.i = @ + 1]
    /\ UNCHANGED <<procs, child, main, line, quit>>
    /\ UNCHANGED <<storeVars, renderVars, authVars>>

\* A server child ends: on the termination request, or by itself.
child_exit(c) ==
    /\ Alive(c)
    /\ child' = [child EXCEPT ![c] = "exited"]
    /\ UNCHANGED <<procs, sent, main, tq, line, quit>>
    /\ UNCHANGED <<storeVars, renderVars, authVars>>

LineIn ==
    {<<>>, <<"\n">>, <<"x", "\n">>, <<"q", "\n">>, <<" ", "Q", " ", "\n">>,
     <<"q", "u", "i", "t", "\n">>, <<"E", "x", "i", "t", "\n">>}

NextLauncher ==
    \/ main_start_listener
    \/ \E fails \in BOOLEAN : main_start(fails)
    \/ main_loop
    \/ main_stop_all
    \/ main_wait
    \/ \E typed \in LineIn : wait_for_quit(typed)
    \/ stop_all
    \/ \E c \in {"app", "auth"} : child_exit(c)

SpecLauncher == Init /\ [][NextLauncher]_vars

----------------------------------------------------------------------------
(* Properties of the store and its handlers.  A handler's step is written  *)
(* handler(input) as a predicate on the step; every handler sets resp.op,    *)
(* which is tested first.                                                    *)

Answers(op) == resp'.op = op

\* C1: a bulk-wipe request whose confirm field is absent or falsy, or whose
\* body is missing or unparsable, is answered 400 and leaves the five tables
\* as they were; no connection is opened and no transaction (hence no
\* DELETE) is begun.
C1_UnconfirmedWipeRefused ==
    [][Answers("clear_all") => \A parsed \in BOOLEAN, confirm \in ConfirmIn, reset \in BOOLEAN, fault \in BOOLEAN :
        ((~parsed \/ confirm # "true") /\ admin_clear_all_begin(parsed, confirm, reset, fault))
            => /\ resp'.op = "clear_all" /\ resp'.status = 400
               /\ tables' = tables
               /\ conns' = conns
               /\ wipe' = wipe]_vars

C1_Witness ==
    /\ resp.op = "clear_all" /\ resp.status = 400
    /\ taman # {} /\ tanaman # {} /\ petugas # {} /\ kegiatan # {} /\ laporan # {}

\* No committed row of any table disappears in the step.
RowsKept ==
    /\ taman \subseteq taman'
    /\ tanaman \subseteq tanaman'
    /\ petugas \subseteq petugas'
    /\ kegiatan \subseteq kegiatan'
    /\ laporan \subseteq laporan'

\* C2: in a confirmed bulk wipe, when one of the five DELETE statements
\* fails with a store error the request ends with an error response and the
\* five tables hold the rows they held before: no step taken while the wipe
\* is at its DELETEs removes a committed row, and the failing step changes
\* no table.
C2_FailedDeleteRollsBack ==
    [][/\ admin_clear_all_delete(TRUE)
            => /\ resp'.op = "clear_all" /\ resp'.status = 500
               /\ tables' = tables
               /\ wipe'.pc = "idle"
       /\ wipe.pc = "delete" => RowsKept]_vars

C2_Witness ==
    /\ resp.op = "clear_all" /\ resp.status = 500 /\ resp.err = "delete_failed"
    /\ taman # {} /\ tanaman # {} /\ petugas # {} /\ kegiatan # {} /\ laporan # {}

\* C3: in every reachable store state every Plant row references an existing
\* Park and every Report row references an existing Plant, Staff and
\* ActivityType.
C3_ReferentialIntegrity ==
    /\ \A p \in tanaman : p.id_taman \in Ids(taman)
    /\ \A l \in laporan :
          /\ l.id_tanaman \in Ids(tanaman)
          /\ l.id_petugas \in Ids(petugas)
          /\ l.id_kegiatan \in Ids(kegiatan)

\* A report is committed while a wipe transaction has already deleted from
\* tables that its row references.
C3_Witness ==
    /\ laporan # {}
    /\ wipe.pc = "delete" /\ wipe.k = 4

\* C4 as claimed: every create_taman whose nama_taman is the name of an
\* existing Park is answered with the store's constraint error and adds no
\* row, and no two Park rows have the same name.
C4_AsClaimed ==
    /\ [](\A r1 \in taman, r2 \in taman : r1.nama = r2.nama => r1 = r2)
    /\ [][Answers("create_taman") => \A nama \in NameIn(ParkNames), luas \in LuasIn :
            ((\E r \in taman : r.nama = nama) /\ create_taman(nama, luas, FALSE))
                => /\ resp'.status >= 400 /\ resp'.err = "duplicate" /\ resp'.msg = "store"
                   /\ taman' = taman]_vars

\* C4, amended: every create_taman whose nama_taman is the name of an
\* existing Park adds no row; it is answered 400 with the store's constraint
\* error when luas_taman is absent, empty or accepted by int(), and 500
\* without a store message when int() rejects luas_taman.  No two Park rows
\* have the same name.
C4_DuplicateNameRejected ==
    /\ [](\A r1 \in taman, r2 \in taman : r1.nama = r2.nama => r1 = r2)
    /\ [][Answers("create_taman") => \A nama \in NameIn(ParkNames), luas \in LuasIn :
            ((\E r \in taman : r.nama = nama) /\ create_taman(nama, luas, FALSE))
                => /\ taman' = taman
                   /\ (luas = Absent \/ luas >= 0)
                         => (resp'.status = 400 /\ resp'.err = "duplicate" /\ resp'.msg = "store")
                   /\ luas = NonNumeric
                         => (resp'.status = 500 /\ resp'.msg = "framework")]_vars

\* A duplicate name is refused by the store while two Parks exist.
C4_Witness ==
    /\ resp.op = "create_taman" /\ resp.status = 400 /\ resp.err = "duplicate"
    /\ Cardinality(taman) = 2

\* C5: create_tanaman with an integer id_taman that is the key of no Park
\* and a non-empty nama_umum is answered with the store's constraint error,
\* and the Plant table is unchanged.
C5_UnknownParkRejected ==
    [][Answers("create_tanaman") => \A id_taman \in IdIn(MaxTaman), nama \in NameIn(PlantNames) :
        (/\ id_taman >= 0 /\ id_taman \notin Ids(taman)
         /\ nama # ""
         /\ create_tanaman(id_taman, nama, FALSE))
            => /\ resp'.op = "create_tanaman"
               /\ resp'.status = 400 /\ resp'.err = "foreign_key" /\ resp'.msg = "store"
               /\ tanaman' = tanaman]_vars

C5_Witness ==
    /\ resp.op = "create_tanaman" /\ resp.status = 400 /\ resp.err = "foreign_key"
    /\ taman # {}

\* A list_taman response: every Park of the table once, ascending by name.
ListedInOrder(data, rows) ==
    /\ Len(data) = Cardinality(rows)
    /\ {data[i] : i \in 1..Len(data)} = rows
    /\ \A i \in 1..Len(data), j \in 1..Len(data) :
          i < j => Collate(data[i].nama) < Collate(data[j].nama)

\* The rest of C6, common to the claim and its amendment: Park rows stay
\* while no wipe commits, and list_taman returns all of them in name order.
C6_Listing ==
    /\ wipe.pc \notin {"alter", "commit"} => taman \subseteq taman'
    /\ list_taman(FALSE)
          => /\ resp'.status = 200
             /\ ListedInOrder(resp'.data, taman)

\* C6 as claimed: every create_taman with a non-empty name that no Park of
\* the store has is answered 201 with a fresh key, and a later list_taman
\* holds the Park, in name order.
C6_AsClaimed ==
    [][/\ Answers("create_taman") => \A nama \in NameIn(ParkNames), luas \in LuasIn :
            (/\ nama # ""
             /\ ~\E r \in taman : r.nama = nama
             /\ create_taman(nama, luas, FALSE))
                => /\ resp'.status = 201
                   /\ resp'.key \notin Ids(taman)
                   /\ [id |-> resp'.key, nama |-> nama] \in taman'
       /\ C6_Listing]_vars

\* C6, amended: the same for requests whose name differs from every
\* existing Park's name also in letter case alone (the unique key compares
\* under the column's collation) and whose luas_taman is absent, empty or
\* accepted by int().
C6_CreateThenList ==
    [][/\ Answers("create_taman") => \A nama \in NameIn(ParkNames), luas \in LuasIn :
            (/\ nama # ""
             /\ ~\E r \in taman : Collate(r.nama) = Collate(nama)
             /\ (luas = Absent \/ luas >= 0)
             /\ create_taman(nama, luas, FALSE))
                => /\ resp'.status = 201
                   /\ resp'.key \notin Ids(taman)
                   /\ taman' = taman \cup {[id |-> resp'.key, nama |-> nama]}
       /\ C6_Listing]_vars

\* Two Parks are listed, the one created second first.
C6_Witness ==
    /\ resp.op = "list_taman" /\ resp.status = 200
    /\ Len(resp.data) = 2
    /\ resp.data[1].id > resp.data[2].id
    /\ {resp.data[1], resp.data[2]} = taman

\* The step adds exactly the row r to laporan.
AddsOneLaporan(r) ==
    /\ r \notin laporan
    /\ laporan' = laporan \cup {r}

\* C7 as claimed: create_laporan with valid references stores the store's
\* current time when tanggal is omitted and the supplied value whenever
\* tanggal is supplied, and adds exactly one Report row.
C7_AsClaimed ==
    [][Answers("create_laporan") => \A id_tanaman \in IdIn(MaxTanaman), id_petugas \in RefIn(MaxPetugas),
         id_kegiatan \in RefIn(MaxKegiatan), tanggal \in TanggalIn :
        (/\ id_tanaman \in Ids(tanaman)
         /\ id_petugas \in Ids(petugas)
         /\ id_kegiatan \in Ids(kegiatan)
         /\ create_laporan(id_tanaman, id_petugas, id_kegiatan, tanggal, "ok"))
            => \E r \in laporan' :
                 /\ AddsOneLaporan(r)
                 /\ r.tanggal = IF tanggal = Absent THEN now ELSE tanggal]_vars

\* C7, amended: the current time is stored when tanggal is omitted, null or
\* empty, and the supplied value when it is a datetime; in both cases
\* exactly one Report row is added.
C7_TimestampDefault ==
    [][Answers("create_laporan") => \A id_tanaman \in IdIn(MaxTanaman), id_petugas \in RefIn(MaxPetugas),
         id_kegiatan \in RefIn(MaxKegiatan), tanggal \in TanggalIn :
        (/\ id_tanaman \in Ids(tanaman)
         /\ id_petugas \in Ids(petugas)
         /\ id_kegiatan \in Ids(kegiatan)
         /\ tanggal \in {Absent, EmptyStr} \cup 1..MaxClock
         /\ create_laporan(id_tanaman, id_petugas, id_kegiatan, tanggal, "ok"))
            => \E r \in laporan' :
                 /\ AddsOneLaporan(r)
                 /\ r.id = resp'.key /\ resp'.status = 201
                 /\ r.tanggal = IF tanggal \in {Absent, EmptyStr} THEN now ELSE tanggal]_vars

\* A Report was created with a supplied timestamp that is not the current time.
C7_Witness ==
    /\ resp.op = "create_laporan" /\ resp.status = 201 /\ resp.q = "PARAM"
    /\ \E l \in laporan : l.id = resp.key /\ l.tanggal # now /\ l.tanggal >= 1

----------------------------------------------------------------------------
(* Properties of the renderer. *)

\* C8: in the rendered fifth table, a Report row whose id_tanaman is the
\* identifier of a Plant of the plants row-set whose id_taman is the
\* identifier of a Park of the parks row-set shows that Park's name.
C8_ParkNameByIdentifier ==
    (doc.built /\ ~doc.raised) =>
        \A i \in 1..Len(bundle.laporan), p \in 1..Len(bundle.tanaman), k \in 1..Len(bundle.taman) :
            (/\ bundle.laporan[i].id_tanaman = bundle.tanaman[p].id_tanaman
             /\ bundle.tanaman[p].id_taman = bundle.taman[k].id_taman)
                => doc.rows5[i].nama_taman = bundle.taman[k].nama_taman

\* A Report of Plant 11, which stands in the second Park, is rendered.
C8_Witness ==
    /\ doc.built /\ ~doc.raised
    /\ \E i \in 1..Len(bundle.laporan), p \in 1..Len(bundle.tanaman) :
          /\ bundle.laporan[i].id_tanaman = 11
          /\ bundle.tanaman[p].id_tanaman = 11
          /\ bundle.tanaman[p].id_taman = 2
          /\ doc.rows5[i].nama_taman = "Taman B"
    /\ Len(bundle.taman) = 2

\* Two display names are the same up to letter case when they fold alike.
CaseFold(s) ==
    CASE s \in {"Mawar", "MAWAR"} -> 1
      [] s \in {"Melati", "MELATI"} -> 2
      [] OTHER -> 0

\* Report j carries only a display name, which is Plant p's name in some
\* letter case; Report i carries Plant p's identifier.
NameOnlyTwin(i, j, p) ==
    /\ bundle.laporan[i].id_tanaman = bundle.tanaman[p].id_tanaman
    /\ bundle.laporan[j].id_tanaman = NoneV
    /\ bundle.laporan[j].tanaman # ""
    /\ CaseFold(bundle.laporan[j].tanaman) = CaseFold(bundle.tanaman[p].nama_umum)

\* C9 as claimed: for every Plant of any plants row-set, a Report that
\* carries only the Plant's display name in any letter case is rendered with
\* the Park name of a Report that carries the Plant's identifier.
C9_AsClaimed ==
    (doc.built /\ ~doc.raised) =>
        \A i \in 1..Len(bundle.laporan), j \in 1..Len(bundle.laporan), p \in 1..Len(bundle.tanaman) :
            NameOnlyTwin(i, j, p) => doc.rows5[j].nama_taman = doc.rows5[i].nama_taman

\* C9, amended: the same for every Plant whose display name, letter case
\* aside, no Plant of another Park shares.
C9_NameFallbackAgrees ==
    (doc.built /\ ~doc.raised) =>
        \A i \in 1..Len(bundle.laporan), j \in 1..Len(bundle.laporan), p \in 1..Len(bundle.tanaman) :
            (/\ NameOnlyTwin(i, j, p)
             /\ \A o \in 1..Len(bundle.tanaman) :
                    CaseFold(bundle.tanaman[o].nama_umum) = CaseFold(bundle.tanaman[p].nama_umum)
                        => bundle.tanaman[o].id_taman = bundle.tanaman[p].id_taman)
                => doc.rows5[j].nama_taman = doc.rows5[i].nama_taman

\* A name-only Report in capitals and a Report by identifier of the same
\* Plant both show the Park's name.
C9_Witness ==
    /\ doc.built /\ ~doc.raised
    /\ \E i \in 1..Len(bundle.laporan), j \in 1..Len(bundle.laporan), p \in 1..Len(bundle.tanaman) :
          /\ NameOnlyTwin(i, j, p)
          /\ bundle.laporan[j].tanaman = "MAWAR"
          /\ doc.rows5[j].nama_taman = "Taman B"
          /\ doc.rows5[i].nama_taman = "Taman B"

\* The characters between <td> and </td>.
TdText == SubSeq(td, 2, Len(td) - 1)

Entities == {Amp, Lt, Gt, Quot, Apos}

\* C10: for every cell value over an alphabet with & < > " ', the text that
\* _build_table puts between <td> and </td> holds no raw < > " or ', and
\* every & in it begins one of &amp; &lt; &gt; &quot; &#39;.
C10_CellEscaped ==
    td # <<>> =>
        /\ td[1] = "<td>" /\ td[Len(td)] = "</td>"
        /\ \A i \in 1..Len(TdText) :
              /\ TdText[i] \notin {"<", ">", "\"", "'"}
              /\ TdText[i] = "&" =>
                    \E e \in Entities :
                        /\ i + Len(e) - 1 <= Len(TdText)
                        /\ SubSeq(TdText, i, i + Len(e) - 1) = e

\* A cell that holds a quote, an ampersand and an angle bracket is rendered.
C10_Witness ==
    /\ td # <<>>
    /\ cell = <<"'", "&", "<">>
    /\ TdText = Apos \o Amp \o Lt

----------------------------------------------------------------------------
(* Properties of the wipe run alone, of connections and of statements. *)

\* C11: when requests do not overlap, the k-th DELETE of a wipe empties the
\* k-th of Report, Plant, Staff, ActivityType, Park (Park taking its Plants
\* along), no DELETE is rejected by a foreign-key restriction, and a wipe
\* that answers ok leaves all five tables empty.
C11_WipeAloneSucceeds ==
    [][/\ \A fault \in BOOLEAN : admin_clear_all_delete(fault) =>
              /\ resp'.err # "restrict"
              /\ ~fault =>
                    wipe'.del = wipe.del \cup
                        (CASE wipe.k = 1 -> {"laporan"}
                           [] wipe.k = 2 -> {"tanaman"}
                           [] wipe.k = 3 -> {"petugas"}
                           [] wipe.k = 4 -> {"kegiatan"}
                           [] wipe.k = 5 -> {"taman", "tanaman"})
       /\ admin_clear_all_commit(FALSE) =>
              /\ resp'.op = "clear_all" /\ resp'.status = 200
              /\ taman' = {} /\ tanaman' = {} /\ petugas' = {}
              /\ kegiatan' = {} /\ laporan' = {}]_vars

\* A wipe answered ok after every table, Report included, had held a row.
C11_Witness ==
    /\ resp.op = "clear_all" /\ resp.status = 200
    /\ \A t \in TableNames : ai[t] = 2
    /\ taman = {} /\ tanaman = {} /\ petugas = {} /\ kegiatan = {} /\ laporan = {}

\* C12: a connection is open only while a request is in flight: every
\* handler that answers within its step has closed what it opened, and the
\* wipe holds its one connection from get_conn() until its response, on
\* every exit path.
C12_ConnectionsClosed ==
    conns = IF wipe.pc = "idle" THEN 0 ELSE 1

\* A wipe has ended by a rollback that itself failed.
C12_Witness ==
    /\ resp.op = "clear_all" /\ resp.err = "rollback_failed"
    /\ wipe.pc = "idle"
    /\ conns = 0
    /\ laporan # {}

----------------------------------------------------------------------------
(* Properties of the renderer on bundles of any shape. *)

\* The Plant rows that carry the identifier id, and the names of the Parks
\* of the bundle they stand in.
PlantsWithId(id) ==
    {p \in 1..Len(bundle.tanaman) : id >= 0 /\ bundle.tanaman[p].id_tanaman = id}
ParkNamesOf(p) ==
    {bundle.taman[k].nama_taman : k \in
        {k \in 1..Len(bundle.taman) :
            /\ bundle.taman[k].id_taman >= 0
            /\ bundle.taman[k].id_taman = bundle.tanaman[p].id_taman}}

\* The Plant rows whose display name is the given one up to letter case.
PlantsNamed(name) ==
    {p \in 1..Len(bundle.tanaman) :
        name # "" /\ CaseFold(bundle.tanaman[p].nama_umum) = CaseFold(name)}

\* The Plant identifiers of the bundle are distinct, as primary keys are.
PlantKeysDistinct ==
    \A p \in 1..Len(bundle.tanaman), q \in 1..Len(bundle.tanaman) :
        (bundle.tanaman[p].id_tanaman >= 0
            /\ bundle.tanaman[p].id_tanaman = bundle.tanaman[q].id_tanaman) => p = q

\* C17 as claimed: the Park name comes from the identifier when that is
\* present and resolves; when the identifier is present and does not resolve
\* and the display name matches a Plant of a Park of the bundle, the name
\* lookup supplies that Park's name; "-" is rendered exactly when neither
\* path resolves.
C17_AsClaimed ==
    (doc.built /\ ~doc.raised /\ PlantKeysDistinct) =>
        \A i \in 1..Len(bundle.laporan) :
            LET L == bundle.laporan[i]
                byId == UNION {ParkNamesOf(p) : p \in PlantsWithId(L.id_tanaman)}
                byName == UNION {ParkNamesOf(p) : p \in PlantsNamed(L.tanaman)}
                shown == doc.rows5[i].nama_taman
            IN /\ byId # {} => shown \in byId
               /\ (byId = {} /\ byName # {}) => shown \in byName
               /\ shown = "-" <=> (byId = {} /\ byName = {})

\* C17, amended: the Park name comes from the identifier when that is
\* present and resolves; a Report whose identifier is present and does not
\* resolve is rendered "-" whatever its display name; only a Report with no
\* identifier is resolved by its display name, through the last Plant row
\* with that name, and is rendered "-" when that fails.
C17_FallbackOnlyWithoutIdentifier ==
    (doc.built /\ ~doc.raised /\ PlantKeysDistinct) =>
        \A i \in 1..Len(bundle.laporan) :
            LET L == bundle.laporan[i]
                byId == UNION {ParkNamesOf(p) : p \in PlantsWithId(L.id_tanaman)}
                named == PlantsNamed(L.tanaman)
                byName == IF named = {} THEN {}
                          ELSE ParkNamesOf(CHOOSE p \in named : \A q \in named : q <= p)
                shown == doc.rows5[i].nama_taman
            IN IF L.id_tanaman # NoneV
                 THEN /\ byId # {} => shown \in byId
                      /\ byId = {} => shown = "-"
                 ELSE /\ byName # {} => shown \in byName
                      /\ byName = {} => shown = "-"

\* A Report with an unknown identifier and a matching display name is
\* rendered "-", and so is one whose identifier int() rejects.
C17_Witness ==
    /\ doc.built /\ ~doc.raised /\ PlantKeysDistinct
    /\ Len(bundle.laporan) = 1 /\ Len(bundle.taman) = 1
    /\ bundle.laporan[1].id_tanaman = 12
    /\ bundle.laporan[1].tanaman = "MAWAR"
    /\ \E p \in PlantsNamed("MAWAR") : ParkNamesOf(p) = {"Taman A"}
    /\ doc.rows5[1].nama_taman = "-"

\* C18 as claimed: _build_report_html returns a document for every bundle,
\* whatever identifiers its rows carry, and never raises.
C18_AsClaimed == doc.built => ~doc.raised

\* C19: for every bundle in which any of the five row-sets is empty or
\* missing, _build_report_html returns a document with five tables, each
\* with its fixed header; a table has one body row for each row of its
\* row-set, hence an empty body when the row-set is empty or missing.
C19_EmptyRowSetsRender ==
    doc.built =>
        /\ ~doc.raised
        /\ Len(doc.secs) = 5
        /\ doc.secs[1].head = <<"No.", "Nama", "Luas", "Lokasi">>
        /\ doc.secs[2].head = <<"No.", "Nama Petugas", "Jabatan">>
        /\ doc.secs[3].head = <<"No.", "Jenis Kegiatan">>
        /\ doc.secs[4].head = <<"No.", "Nama Taman", "Nama Tanaman", "Nama Ilmiah", "Jenis">>
        /\ doc.secs[5].head =
              <<"No.", "Tanggal", "Nama Taman", "Nama Tanaman", "Kegiatan", "Isi Laporan">>
        /\ \A k \in 1..5 :
              Len(doc.secs[k].body) =
                  LET key == <<"taman", "petugas", "kegiatan", "tanaman", "laporan">>[k]
                  IN IF key \in bundle.has THEN Len(bundle[key]) ELSE 0

\* A document from a bundle with a missing row-set, an empty one and a
\* filled one.
C19_Witness ==
    /\ doc.built /\ ~doc.raised
    /\ bundle.has = {"taman", "tanaman", "laporan"}
    /\ bundle.taman # <<>> /\ bundle.tanaman = <<>> /\ bundle.laporan # <<>>
    /\ doc.secs[1].body # <<>>
    /\ doc.secs[2].body = <<>> /\ doc.secs[4].body = <<>>
    /\ doc.secs[5].body[1].nama_taman = "-"

----------------------------------------------------------------------------
(* Properties of the credential store. *)

\* A username without its surrounding blanks: what lies between its first
\* and its last character that is not a blank.
Trimmed(s) ==
    LET solid == {i \in 1..Len(s) : s[i] # " "}
    IN IF solid = {} THEN <<>>
       ELSE SubSeq(s, CHOOSE i \in solid : \A j \in solid : i <= j,
                      CHOOSE i \in solid : \A j \in solid : j <= i)

\* No two users have the same username once trimmed.
UsernamesUnique ==
    \A u1 \in users, u2 \in users : Trimmed(u1.username) = Trimmed(u2.username) => u1 = u2

\* C16 as claimed: no two users have the same trimmed username, and every
\* register request whose trimmed username exists is answered 409 and
\* leaves users unchanged.
C16_AsClaimed ==
    /\ []UsernamesUnique
    /\ [][\A raw \in UsernameIn, pwlen \in PwLenIn :
            ((\E u \in users : u.username = Trimmed(raw)) /\ register(raw, pwlen, FALSE))
                => (resp'.status = 409 /\ users' = users)]_vars

\* C16, amended: the same for requests that carry a password of six
\* characters or more; with a missing or shorter password the answer is 400,
\* and users is unchanged as well.
C16_UsernameUnique ==
    /\ []UsernamesUnique
    /\ [][\A raw \in UsernameIn, pwlen \in PwLenIn :
            ((\E u \in users : u.username = Trimmed(raw)) /\ register(raw, pwlen, FALSE))
                => /\ users' = users
                   /\ resp'.status = IF pwlen >= 6 THEN 409 ELSE 400]_vars

\* A username sent with surrounding blanks is refused as taken.
C16_Witness ==
    /\ resp.op = "register" /\ resp.status = 409
    /\ Cardinality(users) = 2
    /\ \E u \in users : u.username = <<"a", " ", "b">>

----------------------------------------------------------------------------
(* Properties of validation. *)

\* A validation answer: 400 with the handler's own error text, no store
\* call, no connection opened, every table and counter as before.
Refused ==
    /\ resp'.status = 400 /\ resp'.err = "validation" /\ resp'.msg = "fixed"
    /\ io' = [r |-> 0, w |-> 0]
    /\ conns' = conns
    /\ <<taman, tanaman, petugas, kegiatan, laporan, ai>>' =
          <<taman, tanaman, petugas, kegiatan, laporan, ai>>

\* A required integer that is missing or that int() rejects.
NoInteger(v) == v < 0

\* C14: a creation request whose required field is missing, empty or not
\* convertible to the required integer is answered 400 with an error field,
\* issues no store command and leaves all tables unchanged.
\* (A Report request whose identifiers fail is issued without tanggal, which
\* its handler reads only after them.)
C14_ValidationRefuses ==
    [][/\ Answers("create_taman") => \A luas \in LuasIn, fault \in BOOLEAN :
             create_taman("", luas, fault) => Refused
       /\ Answers("create_petugas") => \A fault \in BOOLEAN :
             create_petugas("", fault) => Refused
       /\ Answers("create_kegiatan") => \A fault \in BOOLEAN :
             create_kegiatan("", fault) => Refused
       /\ Answers("create_tanaman") =>
             \A id_taman \in IdIn(MaxTaman), nama \in NameIn(PlantNames), fault \in BOOLEAN :
                ((NoInteger(id_taman) \/ nama = "") /\ create_tanaman(id_taman, nama, fault))
                    => Refused
       /\ Answers("create_laporan") =>
             \A id_tanaman \in IdIn(MaxTanaman), id_petugas \in RefIn(MaxPetugas),
                id_kegiatan \in RefIn(MaxKegiatan) :
                ((NoInteger(id_tanaman) \/ NoInteger(id_petugas) \/ NoInteger(id_kegiatan))
                    /\ create_laporan(id_tanaman, id_petugas, id_kegiatan, Absent, "ok"))
                    => Refused]_vars

\* A Report request without its identifiers was refused while every table
\* had a row.
C14_Witness ==
    /\ resp.op = "create_laporan" /\ resp.status = 400 /\ resp.err = "validation"
    /\ io = [r |-> 0, w |-> 0]
    /\ taman # {} /\ tanaman # {} /\ petugas # {} /\ kegiatan # {} /\ laporan # {}

----------------------------------------------------------------------------
(* Properties of store failures. *)

\* The request ended because a statement or the connection failed.
StoreFailed == resp.err \notin {"none", "validation", "unhandled"}

\* C15 as claimed: whatever the endpoint, a request that ends on a store
\* failure is answered with the store's message, and an endpoint of one
\* statement has attempted that statement once.
C15_AsClaimed ==
    StoreFailed =>
        /\ resp.msg = "store"
        /\ resp.op # "clear_all" => io.r + io.w = 1

----------------------------------------------------------------------------
(* Properties of the endpoints' store calls and of the report's reads. *)

CreateOps == {"create_taman", "create_petugas", "create_kegiatan", "create_tanaman",
              "create_laporan"}
ListOps == {"health", "list_taman", "list_petugas", "list_kegiatan", "list_tanaman",
            "list_tanaman_all", "list_laporan"}
ReportOps == {"report_all", "report_html"}

ParkOfPlant(id_tanaman) ==
    LET plant == CHOOSE t \in tanaman : t.id = id_tanaman
    IN (CHOOSE g \in taman : g.id = plant.id_taman).nama

\* C20 as claimed: when report_html answers with its document, the Park-name
\* cell of each Report row is the name of the Park the Report's Plant belongs
\* to in the store, whatever was committed between the handler's five reads.
C20_AsClaimed ==
    [][(/\ bundle.op = "report_html"
        /\ resp'.op = "report_html" /\ resp'.status = 200 /\ bundle' = NoBundle)
          => LET found == SelectLaporan(ReportLimit)
             IN /\ Len(resp'.data.rows5) = Len(found)
                /\ \A i \in 1..Len(found) :
                      resp'.data.rows5[i].nama_taman = ParkOfPlant(found[i].id_tanaman)]_vars

----------------------------------------------------------------------------
(* Properties of the launcher. *)

\* C21 as claimed: once the listener has read a quit line and its call of
\* stop_callback has returned, every child the main thread has started and
\* now waits for in its loop has been sent a termination request, whenever
\* the line was read.  (Nothing sends a request after this: the main thread
\* leaves its loop only when no child is alive.)
C21_AsClaimed ==
    (quit /\ tq.pc = "done" /\ main.pc = "loop")
        => \A c \in {"app", "auth"} : child[c] = "running" => c \in sent

====
